---- MODULE Spec2Model ----
(***************************************************************************)
(* The Transaction entity of packages/core/src/transaction/transaction.ts  *)
(* and the compact fixed-width blob helpers it encodes blockRef with.      *)
(*                                                                         *)
(* A JavaScript string is a sequence of one-character strings, a Buffer a  *)
(* sequence of bytes 0..255, an object a record whose absent (undefined)   *)
(* properties are absent from its DOMAIN, and null the value Null.         *)
(* A call returns a record [err, val, rec]: err is "" on a normal return   *)
(* and the name of the error thrown otherwise, val the value returned, rec *)
(* the number of calls of secp256k1.recover the call made.                 *)
(***************************************************************************)
EXTENDS Integers, Sequences, FiniteSets, TLC

VARIABLES
    tx,      \* the Transaction instance the caller holds (NoTx: none)
    call,    \* the last operation called, with its arguments
    result,  \* what that operation returned or threw
    flow,    \* the fee-delegation signing flow running on tx
    constructed  \* the instance as the constructor left it (NoTx: none)

vars == <<tx, call, result, flow, constructed>>

----------------------------------------------------------------------------
(* Bounds of the model *)

\* reserved.features ranges over 0..MaxFeatures
MaxFeatures == 3
\* private keys of the signers are 1..NumKeys
NumKeys == 2

----------------------------------------------------------------------------
(* Program constants *)

SIGNATURE_LENGTH == 65
BLOCKREF_LENGTH == 8
ADDRESS_BYTES == 20
DIGEST_BYTES == 32

----------------------------------------------------------------------------
(* Values, strings and buffers *)

Null == <<"null">>

Min(a, b) == IF a <= b THEN a ELSE b

Rep(x, n) == [i \in 1..n |-> x]

Ok(v) == [err |-> "", val |-> v, rec |-> 0]

Fail(e) == [err |-> e, val |-> <<>>, rec |-> 0]

\* r, then K on the value r returned unless r threw
Try(r, K(_)) ==
    IF r.err # "" THEN r
    ELSE [K(r.val) EXCEPT !.rec = @ + r.rec]

Has(obj, field) == field \in DOMAIN obj

Without(obj, field) == [f \in (DOMAIN obj) \ {field} |-> obj[f]]

HexDigits == <<"0", "1", "2", "3", "4", "5", "6", "7",
               "8", "9", "a", "b", "c", "d", "e", "f">>

UpperHexDigits == <<"A", "B", "C", "D", "E", "F">>

IsHexChar(c) ==
    \/ \E i \in 1..16 : HexDigits[i] = c
    \/ \E i \in 1..6 : UpperHexDigits[i] = c

HexVal(c) ==
    IF \E i \in 1..16 : HexDigits[i] = c
    THEN (CHOOSE i \in 1..16 : HexDigits[i] = c) - 1
    ELSE (CHOOSE i \in 1..6 : UpperHexDigits[i] = c) + 9

\* String.prototype.slice(n)
slice(s, n) == SubSeq(s, n + 1, Len(s))

\* Buffer.prototype.subarray(start, end)
subarray(buf, start, end) == SubSeq(buf, Min(start, Len(buf)) + 1, Min(end, Len(buf)))

\* Buffer.from(s, 'hex'): whole pairs of hex digits, up to the first pair that is not
BufferFromHex(s) ==
    LET bad == {i \in 1..Len(s) : ~IsHexChar(s[i])}
        firstBad == IF bad = {} THEN Len(s) + 1
                    ELSE CHOOSE i \in bad : \A j \in bad : i <= j
        pairs == Min((firstBad - 1) \div 2, Len(s) \div 2)
    IN  [i \in 1..pairs |-> 16 * HexVal(s[2 * i - 1]) + HexVal(s[2 * i])]

\* Buffer.prototype.toString('hex')
BufferToHex(buf) ==
    [i \in 1..(2 * Len(buf)) |->
        IF i % 2 = 1 THEN HexDigits[(buf[(i + 1) \div 2] \div 16) + 1]
        ELSE HexDigits[(buf[i \div 2] % 16) + 1]]

\* dataUtils.isHexString: /^0x[0-9a-f]*$/i
isHexString(s) ==
    /\ Len(s) >= 2
    /\ s[1] = "0"
    /\ s[2] \in {"x", "X"}
    /\ \A i \in 3..Len(s) : IsHexChar(s[i])

\* address.isAddress: /^0x[0-9a-f]{40}$/i
isAddress(s) ==
    /\ s # Null
    /\ isHexString(s)
    /\ Len(s) = 2 * ADDRESS_BYTES + 2

----------------------------------------------------------------------------
(* The crypto capability: a digest, and signatures a public key is        *)
(* recovered from.  recover(d, sign(d, k)) is k's public key, and recover  *)
(* of any other 65 bytes with a recovery id 0 or 1 is some other key.      *)

\* The sum of f[lo..hi]
RECURSIVE SumOf(_, _, _)
SumOf(f, lo, hi) ==
    IF lo > hi THEN 0
    ELSE IF lo = hi THEN f[lo]
    ELSE SumOf(f, lo, (lo + hi) \div 2) + SumOf(f, (lo + hi) \div 2 + 1, hi)

\* Two running sums over the bytes: of the bytes, and of the sums so far
Checksum(buf) ==
    LET n == Len(buf)
    IN  <<(1 + SumOf([i \in 1..n |-> buf[i] + 1], 1, n)) % 65521,
          (n + SumOf([i \in 1..n |-> (n - i + 1) * (buf[i] + 1)], 1, n)) % 65521>>

\* The bytes of the digest of the two sums
Digest(alo, ahi, blo, bhi) ==
    [j \in 1..DIGEST_BYTES |->
        (alo * (2 * j + 1) + ahi * (j + 3) + blo * (j * j + 1) + bhi * (3 * j + 2) + j) % 256]

DigestOf(ab) == Digest(ab[1] % 256, ab[1] \div 256, ab[2] % 256, ab[2] \div 256)

blake2b256(buf) == DigestOf(Checksum(buf))

derivePublicKey(k) == [i \in 1..DIGEST_BYTES |-> (k * 37 + i * 11) % 256]

sign(digest, k) ==
    [i \in 1..DIGEST_BYTES |-> (digest[i] + derivePublicKey(k)[i]) % 256]
    \o digest
    \o <<k % 2>>

recover(digest, sig) ==
    [rec |-> 1,
     err |-> IF Len(digest) # DIGEST_BYTES \/ Len(sig) # SIGNATURE_LENGTH
                THEN "InvalidSecp256k1Signature"
             ELSE IF sig[SIGNATURE_LENGTH] \notin {0, 1}
                THEN "InvalidSecp256k1SignatureRecovery"
             ELSE "",
     val |-> IF Len(digest) = DIGEST_BYTES /\ Len(sig) = SIGNATURE_LENGTH
                /\ sig[SIGNATURE_LENGTH] \in {0, 1}
             THEN [i \in 1..DIGEST_BYTES |-> (sig[i] - digest[i] + 256) % 256]
             ELSE <<>>]

\* address.fromPublicKey
fromPublicKey(pub) ==
    <<"0", "x">> \o
    BufferToHex(SubSeq(blake2b256(pub), DIGEST_BYTES - ADDRESS_BYTES + 1, DIGEST_BYTES))

----------------------------------------------------------------------------
(* The RLP codec and the field kinds of the transaction profiles *)

\* An RLP item is a byte string [b |-> bytes] or a list [l |-> items].
RECURSIVE ToBE(_)
ToBE(n) == IF n <= 0 THEN <<>> ELSE ToBE(n \div 256) \o <<n % 256>>

encodeLength(len, offset) ==
    IF len <= 55 THEN <<offset + len>>
    ELSE <<offset + 55 + Len(ToBE(len))>> \o ToBE(len)

\* Buffer.concat(list)
RECURSIVE Concat(_)
Concat(list) ==
    IF list = <<>> THEN <<>>
    ELSE IF Len(list) = 1 THEN list[1]
    ELSE Concat(SubSeq(list, 1, Len(list) \div 2))
         \o Concat(SubSeq(list, Len(list) \div 2 + 1, Len(list)))

RECURSIVE rlpEncode(_)
rlpEncode(item) ==
    IF Has(item, "b")
    THEN IF Len(item.b) = 1 /\ item.b[1] < 128 THEN item.b
         ELSE encodeLength(Len(item.b), 128) \o item.b
    ELSE LET payload == Concat([i \in 1..Len(item.l) |-> rlpEncode(item.l[i])])
         IN  encodeLength(Len(payload), 192) \o payload

\* Array.prototype.findIndex(byte => byte !== 0): the index from 0, or -1
findIndexNonZero(buffer) ==
    IF \E i \in 1..Len(buffer) : buffer[i] # 0
    THEN (CHOOSE i \in 1..Len(buffer) :
            buffer[i] # 0 /\ \A j \in 1..(i - 1) : buffer[j] = 0) - 1
    ELSE -1

\* A variant of encodeCompactFixedHexBlob that drops one leading zero byte at most
encodeCompactFixedHexBlob_OneZero(buffer) ==
    IF Len(buffer) > 0 /\ buffer[1] = 0 THEN subarray(buffer, 1, Len(buffer)) ELSE buffer

encodeCompactFixedHexBlob(buffer) ==
    LET zeroIndex == findIndexNonZero(buffer)
    IN  IF zeroIndex # -1 THEN subarray(buffer, zeroIndex, Len(buffer)) ELSE <<>>

\* createRlpError(context, message): the error a field kind throws
createRlpError(context, message) ==
    [err |-> "RlpError", val |-> <<>>, rec |-> 0, context |-> context, message |-> message]

\* A variant of assertCompactFixedHexBlobBuffer that lets a leading zero byte through
assertCompactFixedHexBlobBuffer_LengthOnly(buffer, context, bytes) ==
    IF Len(buffer) > bytes
        THEN createRlpError(context, "expected buffer to be at most bytes")
    ELSE Ok(<<>>)

assertCompactFixedHexBlobBuffer(buffer, context, bytes) ==
    IF Len(buffer) > bytes
        THEN createRlpError(context, "expected buffer to be at most bytes")
    ELSE IF Len(buffer) # 0 /\ buffer[1] = 0
        THEN createRlpError(context, "expected no leading zero bytes")
    ELSE Ok(<<>>)

\* A variant of decodeBufferToHexWithLeadingZeros that prepends no zeros
decodeBufferToHexWithLeadingZeros_NoPadding(buffer, bytes) ==
    IF bytes - Len(buffer) < 0 THEN Fail("RangeError")
    ELSE Ok(<<"0", "x">> \o BufferToHex(buffer))

\* '0'.repeat(count) throws a RangeError on a negative count
decodeBufferToHexWithLeadingZeros(buffer, bytes) ==
    IF bytes - Len(buffer) < 0 THEN Fail("RangeError")
    ELSE LET zeros == Rep("0", (bytes - Len(buffer)) * 2)
         IN  Ok(<<"0", "x">> \o zeros \o BufferToHex(buffer))

\* NumericKind(maxBytes).data(n).encode()
NumericKind(n, maxBytes) ==
    IF n < 0 \/ Len(ToBE(n)) > maxBytes THEN Fail("InvalidRLP") ELSE Ok(ToBE(n))

\* HexBlobKind.data(data).encode()
HexBlobKind(data) ==
    IF data = Null \/ ~isHexString(data) \/ Len(data) % 2 # 0 THEN Fail("InvalidRLP")
    ELSE Ok(BufferFromHex(slice(data, 2)))

\* FixedHexBlobKind(bytes).data(data).encode()
FixedHexBlobKind(data, bytes) ==
    IF Len(data) # 2 * bytes + 2 THEN Fail("InvalidRLP") ELSE HexBlobKind(data)

\* OptionalFixedHexBlobKind(bytes).data(data).encode()
OptionalFixedHexBlobKind(data, bytes) ==
    IF data = Null THEN Ok(<<>>) ELSE FixedHexBlobKind(data, bytes)

\* CompactFixedHexBlobKind(bytes).data(data).encode()
CompactFixedHexBlobKind(data, bytes) ==
    Try(FixedHexBlobKind(data, bytes), LAMBDA buffer : Ok(encodeCompactFixedHexBlob(buffer)))

\* The results of a record's fields as one: the first failure, or the values
Packed(results) ==
    IF \E i \in 1..Len(results) : results[i].err # ""
    THEN Fail(results[CHOOSE i \in 1..Len(results) :
                        results[i].err # "" /\ \A j \in 1..(i - 1) : results[j].err = ""].err)
    ELSE Ok([i \in 1..Len(results) |-> results[i].val])

\* One clause as the RLP list [to, value, data]
ClauseItem(clause) ==
    Try(Packed(<<OptionalFixedHexBlobKind(clause.to, ADDRESS_BYTES),
                 NumericKind(clause.value, 32),
                 HexBlobKind(clause.data)>>),
        LAMBDA fields : Ok([l |-> [i \in 1..3 |-> [b |-> fields[i]]]]))

\* The items of the unsigned profile, in the order of the wire format
UNSIGNED_TRANSACTION_RLP(obj) ==
    Try(Packed(<<NumericKind(obj.chainTag, 1),
                 CompactFixedHexBlobKind(obj.blockRef, BLOCKREF_LENGTH),
                 NumericKind(obj.expiration, 4),
                 NumericKind(obj.gasPriceCoef, 1),
                 NumericKind(obj.gas, 8),
                 OptionalFixedHexBlobKind(obj.dependsOn, 32),
                 NumericKind(obj.nonce, 8)>>),
        LAMBDA scalars :
            Try(Packed([i \in 1..Len(obj.clauses) |-> ClauseItem(obj.clauses[i])]),
                LAMBDA clauses :
                    Ok(<<[b |-> scalars[1]], [b |-> scalars[2]], [b |-> scalars[3]],
                         [l |-> clauses],
                         [b |-> scalars[4]], [b |-> scalars[5]], [b |-> scalars[6]],
                         [b |-> scalars[7]],
                         [l |-> [i \in 1..Len(obj.reserved) |-> [b |-> obj.reserved[i]]]]>>)))

\* The items of the signed profile: those of the unsigned one, then the signature
SIGNED_TRANSACTION_RLP(obj) ==
    Try(UNSIGNED_TRANSACTION_RLP(obj),
        LAMBDA items :
            IF Has(obj, "signature") THEN Ok(items \o <<[b |-> obj.signature]>>)
            ELSE Fail("InvalidRLP"))

\* RLPProfiler.encodeObject: the RLP bytes of the record's items
encodeObject(items) == Try(items, LAMBDA list : Ok(rlpEncode([l |-> list])))

----------------------------------------------------------------------------
(* class Transaction *)

NoTx == [absent |-> TRUE]

\* The arguments of a call that passes none
NoArgs == [op |-> "none"]

RECURSIVE BitAnd(_, _)
BitAnd(a, b) ==
    IF a = 0 \/ b = 0 THEN 0
    ELSE (a % 2) * (b % 2) + 2 * BitAnd(a \div 2, b \div 2)

\* A variant of _isDelegated that compares features with 1 instead of masking bit 0
_isDelegated_FeaturesEqualOne(body) ==
    LET reserved == IF Has(body, "reserved") THEN body.reserved ELSE <<>>
        features == IF Has(reserved, "features") THEN reserved.features ELSE 0
    IN  features = 1

_isDelegated(body) ==
    LET reserved == IF Has(body, "reserved") THEN body.reserved ELSE <<>>
        features == IF Has(reserved, "features") THEN reserved.features ELSE 0
    IN  BitAnd(features, 1) = 1

\* A variant of _isSignatureValid that expects 65 bytes whatever the delegation flag
_isSignatureValid_IgnoresDelegation(body, signature) ==
    Len(signature) = SIGNATURE_LENGTH

_isSignatureValid(body, signature) ==
    LET expectedSigatureLength ==
            IF _isDelegated(body) THEN SIGNATURE_LENGTH * 2 ELSE SIGNATURE_LENGTH
    IN  Len(signature) = expectedSigatureLength

\* A variant of _isValidBody whose chainTag range stops short of 255
_isValidBody_ChainTagBelow255(body) ==
    /\ Has(body, "chainTag")
    /\ body.chainTag >= 0
    /\ body.chainTag < 255
    /\ Has(body, "blockRef")
    /\ isHexString(body.blockRef)
    /\ Len(BufferFromHex(slice(body.blockRef, 2))) = BLOCKREF_LENGTH
    /\ Has(body, "expiration")
    /\ Has(body, "clauses")
    /\ Has(body, "gasPriceCoef")
    /\ Has(body, "gas")
    /\ Has(body, "dependsOn")
    /\ Has(body, "nonce")

_isValidBody(body) ==
    /\ Has(body, "chainTag")
    /\ body.chainTag >= 0
    /\ body.chainTag <= 255
    /\ Has(body, "blockRef")
    /\ isHexString(body.blockRef)
    /\ Len(BufferFromHex(slice(body.blockRef, 2))) = BLOCKREF_LENGTH
    /\ Has(body, "expiration")
    /\ Has(body, "clauses")
    /\ Has(body, "gasPriceCoef")
    /\ Has(body, "gas")
    /\ Has(body, "dependsOn")
    /\ Has(body, "nonce")

\* new Transaction(body, signature?): args holds body and, when passed, signature
constructor(args) ==
    IF ~_isValidBody(args.body) THEN Fail("InvalidTransactionBody")
    ELSE IF ~Has(args, "signature") THEN Ok([body |-> args.body])
    ELSE IF _isSignatureValid(args.body, args.signature)
        THEN Ok([body |-> args.body, signature |-> args.signature])
    ELSE Fail("InvalidSignature")

isDelegated(t) == Ok(<<_isDelegated(t.body)>>)

isSigned(t) == Ok(<<Has(t, "signature")>>)

\* The while loop of _encodeReservedField: pop while the last entry is empty
RECURSIVE TrimFeaturesList(_)
TrimFeaturesList(featuresList) ==
    IF Len(featuresList) > 0 /\ Len(featuresList[Len(featuresList)]) = 0
    THEN TrimFeaturesList(SubSeq(featuresList, 1, Len(featuresList) - 1))
    ELSE featuresList

\* A variant of _encodeReservedField that leaves out every empty entry, trailing or not
_encodeReservedField_DropsEveryEmpty(t) ==
    LET reserved == IF Has(t.body, "reserved") THEN t.body.reserved ELSE <<>>
    IN  Try(NumericKind(IF Has(reserved, "features") THEN reserved.features ELSE 0, 4),
            LAMBDA features :
                Ok(SelectSeq(<<features>> \o (IF Has(reserved, "unused") THEN reserved.unused
                                              ELSE <<>>),
                             LAMBDA entry : Len(entry) > 0)))

_encodeReservedField(t) ==
    LET reserved == IF Has(t.body, "reserved") THEN t.body.reserved ELSE <<>>
    IN  Try(NumericKind(IF Has(reserved, "features") THEN reserved.features ELSE 0, 4),
            LAMBDA features :
                Ok(TrimFeaturesList(
                    <<features>> \o (IF Has(reserved, "unused") THEN reserved.unused
                                     ELSE <<>>))))

_lowLevelEncodeTransactionBodyWithRLP(t, body, signed) ==
    IF signed
    THEN encodeObject(SIGNED_TRANSACTION_RLP(
            IF Has(t, "signature")
            THEN [f \in DOMAIN body \cup {"signature"} |->
                    IF f = "signature" THEN t.signature ELSE body[f]]
            ELSE body))
    ELSE encodeObject(UNSIGNED_TRANSACTION_RLP(body))

_encode(t, signed) ==
    Try(_encodeReservedField(t),
        LAMBDA reserved :
            _lowLevelEncodeTransactionBodyWithRLP(
                t,
                [f \in DOMAIN t.body \cup {"reserved"} |->
                    IF f = "reserved" THEN reserved ELSE t.body[f]],
                signed))

\* A variant in which featuresList is reserved.unused itself, so that the pops of the
\* loop take the trailing empty entries out of the body
thisAfter_encodeReservedField_PopsUnused(t) ==
    IF Has(t.body, "reserved") /\ Has(t.body.reserved, "unused")
    THEN [t EXCEPT !.body.reserved.unused = TrimFeaturesList(@)]
    ELSE t

\* this after _encodeReservedField: featuresList is an array of its own, into which
\* the entries of reserved.unused are copied, and the loop pops from it alone
thisAfter_encodeReservedField(t) == t

\* this after _encode: the body is copied into a new object, whose reserved field
\* is the list _encodeReservedField returned
thisAfter_encode(t) == thisAfter_encodeReservedField(t)

\* A variant of getSignatureHash that hashes the encoding with the signature in it
getSignatureHash_HashesEncoded(t, args) ==
    IF Has(args, "delegateFor") /\ ~isAddress(args.delegateFor)
        THEN Fail("InvalidAddress")
    ELSE Try(_encode(t, Has(t, "signature")),
             LAMBDA bytes :
                IF Has(args, "delegateFor")
                THEN Ok(blake2b256(blake2b256(bytes)
                                   \o BufferFromHex(slice(args.delegateFor, 2))))
                ELSE Ok(blake2b256(bytes)))

\* A variant of getSignatureHash that does not check delegateFor
getSignatureHash_NoAddressCheck(t, args) ==
    Try(_encode(t, FALSE),
        LAMBDA bytes :
            IF Has(args, "delegateFor")
            THEN Ok(blake2b256(blake2b256(bytes)
                               \o BufferFromHex(slice(args.delegateFor, 2))))
            ELSE Ok(blake2b256(bytes)))

\* getSignatureHash(delegateFor?): args holds delegateFor when it is passed
getSignatureHash(t, args) ==
    IF Has(args, "delegateFor") /\ ~isAddress(args.delegateFor)
        THEN Fail("InvalidAddress")
    ELSE Try(_encode(t, FALSE),
             LAMBDA bytes :
                IF Has(args, "delegateFor")
                THEN Ok(blake2b256(blake2b256(bytes)
                                   \o BufferFromHex(slice(args.delegateFor, 2))))
                ELSE Ok(blake2b256(bytes)))

\* A variant of encoded that always uses the unsigned profile
encoded_UnsignedProfile(t) == _encode(t, FALSE)

encoded(t) == _encode(t, Has(t, "signature"))

\* A variant of origin that recovers from the last 65 signature bytes
origin_LastSignatureBytes(t) ==
    IF ~Has(t, "signature") THEN Fail("NotSigned")
    ELSE Try(getSignatureHash(t, NoArgs),
             LAMBDA hash :
                Try(recover(hash, subarray(t.signature, Len(t.signature) - 65,
                                           Len(t.signature))),
                    LAMBDA originPublicKey : Ok(fromPublicKey(originPublicKey))))

origin(t) ==
    IF ~Has(t, "signature") THEN Fail("NotSigned")
    ELSE Try(getSignatureHash(t, NoArgs),
             LAMBDA hash :
                Try(recover(hash, subarray(t.signature, 0, 65)),
                    LAMBDA originPublicKey : Ok(fromPublicKey(originPublicKey))))

id(t) ==
    IF ~Has(t, "signature") THEN Fail("NotSigned")
    ELSE Try(getSignatureHash(t, NoArgs),
             LAMBDA hash :
                Try(origin(t),
                    LAMBDA from :
                        Ok(<<"0", "x">> \o BufferToHex(blake2b256(
                            hash \o BufferFromHex(slice(from, 2)))))))

\* A variant of delegator that looks for the signature before the delegation flag
delegator_SignedCheckFirst(t) ==
    IF ~Has(t, "signature") THEN Fail("NotSigned")
    ELSE IF ~_isDelegated(t.body) THEN Fail("NotDelegated")
    ELSE Try(origin(t),
             LAMBDA from :
                Try(getSignatureHash(t, [op |-> "getSignatureHash", delegateFor |-> from]),
                    LAMBDA hash :
                        Try(recover(hash, subarray(t.signature, 65, Len(t.signature))),
                            LAMBDA delegatorPublicKey :
                                Ok(fromPublicKey(delegatorPublicKey)))))

\* A variant of delegator that fails NotDelegated only after trying to recover
delegator_RecoversFirst(t) ==
    IF ~Has(t, "signature") THEN Fail("NotSigned")
    ELSE Try(origin(t),
             LAMBDA from :
                IF ~_isDelegated(t.body) THEN Fail("NotDelegated")
                ELSE Try(getSignatureHash(t, [op |-> "getSignatureHash",
                                              delegateFor |-> from]),
                         LAMBDA hash :
                            Try(recover(hash, subarray(t.signature, 65, Len(t.signature))),
                                LAMBDA delegatorPublicKey :
                                    Ok(fromPublicKey(delegatorPublicKey)))))

\* A variant of delegator that recovers against the hash the origin signed
delegator_PlainSigningHash(t) ==
    IF ~_isDelegated(t.body) THEN Fail("NotDelegated")
    ELSE IF ~Has(t, "signature") THEN Fail("NotSigned")
    ELSE Try(getSignatureHash(t, NoArgs),
             LAMBDA hash :
                Try(recover(hash, subarray(t.signature, 65, Len(t.signature))),
                    LAMBDA delegatorPublicKey : Ok(fromPublicKey(delegatorPublicKey))))

delegator(t) ==
    IF ~_isDelegated(t.body) THEN Fail("NotDelegated")
    ELSE IF ~Has(t, "signature") THEN Fail("NotSigned")
    ELSE Try(origin(t),
             LAMBDA from :
                Try(getSignatureHash(t, [op |-> "getSignatureHash", delegateFor |-> from]),
                    LAMBDA hash :
                        Try(recover(hash, subarray(t.signature, 65, Len(t.signature))),
                            LAMBDA delegatorPublicKey :
                                Ok(fromPublicKey(delegatorPublicKey)))))

\* this after the call args of a method or getter: what the call wrote of the instance
thisAfter(t, args) ==
    IF args.op \in {"isDelegated", "isSigned"} THEN t
    ELSE IF args.op = "getSignatureHash"
        THEN IF Has(args, "delegateFor") /\ ~isAddress(args.delegateFor) THEN t
             ELSE thisAfter_encode(t)
    ELSE IF args.op \in {"origin", "id"}
        THEN IF Has(t, "signature") THEN thisAfter_encode(t) ELSE t
    ELSE IF args.op = "delegator"
        THEN IF _isDelegated(t.body) /\ Has(t, "signature") THEN thisAfter_encode(t) ELSE t
    ELSE IF args.op = "encoded" THEN thisAfter_encode(t)
    ELSE thisAfter_encodeReservedField(t)

----------------------------------------------------------------------------
(* The inputs of the model *)

\* reserved.unused holds at most MaxUnused entries
MaxUnused == 2

WithField(obj, field, v) ==
    [f \in DOMAIN obj \cup {field} |-> IF f = field THEN v ELSE obj[f]]

Str0x(digits) == <<"0", "x">> \o digits

\* The address of the account of private key k
AddressOfKey(k) == fromPublicKey(derivePublicKey(k))

ClauseTransfer ==
    [to |-> Str0x(Rep("7", 38) \o <<"e", "d">>), value |-> 10000, data |-> Str0x(<<>>)]

ClauseCreate ==
    [to |-> Null, value |-> 0, data |-> Str0x(<<"6", "0", "0", "1">>)]

\* a clause whose address is one digit short
ClauseMalformed ==
    [to |-> Str0x(Rep("7", 39)), value |-> 1, data |-> Str0x(<<>>)]

BaseBody ==
    [chainTag |-> 74,
     blockRef |-> Str0x(Rep("0", 8) \o <<"a", "a", "b", "b", "c", "c", "d", "d">>),
     expiration |-> 32,
     clauses |-> <<ClauseTransfer>>,
     gasPriceCoef |-> 128,
     gas |-> 21000,
     dependsOn |-> Null,
     nonce |-> 12345678]

RequiredFields ==
    {"chainTag", "blockRef", "expiration", "clauses", "gasPriceCoef", "gas",
     "dependsOn", "nonce"}

ChainTags == {-1, 0, 255, 256}

BlockRefs ==
    {Rep("0", 16),                                  \* no 0x prefix
     Str0x(<<"z", "z">> \o Rep("0", 14)),           \* not hex digits
     Str0x(Rep("1", 14)),                           \* 7 bytes
     Str0x(Rep("1", 18)),                           \* 9 bytes
     Str0x(Rep("1", 17)),                           \* 8 bytes and a half
     Str0x(Rep("0", 16)),                           \* 8 zero bytes
     <<"0", "X">> \o Rep("A", 16)}                  \* upper case

\* Bodies that differ from BaseBody in one field other than reserved
BodyShapes ==
    {BaseBody}
    \cup {Without(BaseBody, f) : f \in RequiredFields}
    \cup {WithField(BaseBody, "chainTag", c) : c \in ChainTags}
    \cup {WithField(BaseBody, "blockRef", b) : b \in BlockRefs}
    \cup {WithField(BaseBody, "dependsOn", Str0x(Rep("9", 64)))}
    \cup {WithField(BaseBody, "clauses", cs) :
            cs \in {<<>>, <<ClauseMalformed>>, <<ClauseCreate, ClauseTransfer>>}}

UnusedEntries == {<<>>, <<7>>}

UnusedLists == UNION {[1..n -> UnusedEntries] : n \in 0..MaxUnused}

ReservedValues ==
    {<<>>}
    \cup {[features |-> f] : f \in 0..MaxFeatures}
    \cup {[unused |-> u] : u \in UnusedLists}
    \cup {[features |-> f, unused |-> u] : f \in {0, 1}, u \in UnusedLists}

Bodies ==
    BodyShapes
    \cup {WithField(b, "reserved", [features |-> 1]) : b \in BodyShapes}
    \cup {WithField(BaseBody, "reserved", r) : r \in ReservedValues}

\* The signature of key k on the signing hash of body, when body has one
SignaturesOf(body) ==
    IF ~_isValidBody(body) THEN {}
    ELSE {sign(h.val, k) : h \in {r \in {getSignatureHash([body |-> body], NoArgs)} :
                                    r.err = ""},
                          k \in 1..NumKeys}

\* The signatures a caller passes with body: of the right and of wrong lengths,
\* well-formed or not, and a signer's own followed by some second half
Signatures(body) ==
    {Rep(0, n) : n \in {0, SIGNATURE_LENGTH - 1, SIGNATURE_LENGTH, SIGNATURE_LENGTH + 1,
                        2 * SIGNATURE_LENGTH - 1, 2 * SIGNATURE_LENGTH,
                        2 * SIGNATURE_LENGTH + 1}}
    \cup {Rep(0, SIGNATURE_LENGTH - 1) \o <<5>>,
          Rep(0, 2 * SIGNATURE_LENGTH - 1) \o <<5>>}
    \cup {s \o half : s \in SignaturesOf(body),
                      half \in {<<>>, Rep(0, SIGNATURE_LENGTH), Rep(1, SIGNATURE_LENGTH)}}

\* The delegateFor arguments a caller passes
DelegateFors ==
    {AddressOfKey(1),
     <<"0", "X">> \o Rep("A", 38) \o <<"b", "C">>,   \* well formed, upper case
     Str0x(Rep("a", 39)),                           \* a digit short
     Str0x(Rep("a", 39) \o <<"g">>),                \* not hex digits
     Rep("a", 42)}                                  \* no 0x prefix

----------------------------------------------------------------------------
(* The operations *)

\* new Transaction(body) and new Transaction(body, signature)
Construct ==
    /\ tx = NoTx
    /\ call.op = "none"
    /\ \E body \in Bodies :
        \E args \in {[op |-> "constructor", body |-> body]}
                    \cup {[op |-> "constructor", body |-> body, signature |-> s] :
                            s \in Signatures(body)} :
            \E made \in {constructor(args)} :
                /\ call' = args
                /\ result' = [made EXCEPT !.val = <<>>]
                /\ tx' = IF made.err = "" THEN made.val ELSE NoTx
                /\ constructed' = tx'
    /\ UNCHANGED flow

\* The caller drops the instance and starts again
Discard ==
    /\ call.op # "none"
    /\ tx' = NoTx
    /\ call' = [op |-> "none"]
    /\ result' = Ok(<<>>)
    /\ flow' = [stage |-> "idle"]
    /\ constructed' = NoTx

IsDelegated ==
    /\ tx # NoTx
    /\ call' = [op |-> "isDelegated"]
    /\ result' = isDelegated(tx)
    /\ tx' = thisAfter(tx, call')
    /\ UNCHANGED <<flow, constructed>>

IsSigned ==
    /\ tx # NoTx
    /\ call' = [op |-> "isSigned"]
    /\ result' = isSigned(tx)
    /\ tx' = thisAfter(tx, call')
    /\ UNCHANGED <<flow, constructed>>

GetSignatureHash ==
    /\ tx # NoTx
    /\ \E args \in {[op |-> "getSignatureHash"]}
                   \cup {[op |-> "getSignatureHash", delegateFor |-> a] : a \in DelegateFors} :
        /\ call' = args
        /\ result' = getSignatureHash(tx, args)
    /\ tx' = thisAfter(tx, call')
    /\ UNCHANGED <<flow, constructed>>

Encoded ==
    /\ tx # NoTx
    /\ call' = [op |-> "encoded"]
    /\ result' = encoded(tx)
    /\ tx' = thisAfter(tx, call')
    /\ UNCHANGED <<flow, constructed>>

Origin ==
    /\ tx # NoTx
    /\ call' = [op |-> "origin"]
    /\ result' = origin(tx)
    /\ tx' = thisAfter(tx, call')
    /\ UNCHANGED <<flow, constructed>>

Id ==
    /\ tx # NoTx
    /\ call' = [op |-> "id"]
    /\ result' = id(tx)
    /\ tx' = thisAfter(tx, call')
    /\ UNCHANGED <<flow, constructed>>

Delegator ==
    /\ tx # NoTx
    /\ call' = [op |-> "delegator"]
    /\ result' = delegator(tx)
    /\ tx' = thisAfter(tx, call')
    /\ UNCHANGED <<flow, constructed>>

\* The private _encodeReservedField, as _encode calls it
EncodeReservedField ==
    /\ tx # NoTx
    /\ call' = [op |-> "_encodeReservedField"]
    /\ result' = _encodeReservedField(tx)
    /\ tx' = thisAfter(tx, call')
    /\ UNCHANGED <<flow, constructed>>

----------------------------------------------------------------------------
(* The fee-delegation flow: the origin signs the signing hash, the         *)
(* delegator signs the signing hash for the origin's address, and the      *)
(* transaction is built again with the two signatures, the origin's first. *)
(* The signers answer when they please.                                    *)

\* The caller computes signingHash() and sends it to the origin's signer
FlowHashForOrigin ==
    /\ tx # NoTx
    /\ ~Has(tx, "signature")
    /\ _isDelegated(tx.body)
    /\ flow.stage = "idle"
    /\ \E k \in 1..NumKeys, hash \in {getSignatureHash(tx, NoArgs)} :
        /\ hash.err = ""
        /\ flow' = [stage |-> "signing", originKey |-> k, originHash |-> hash.val]
        /\ call' = [op |-> "getSignatureHash"]
        /\ result' = hash
    /\ tx' = thisAfter(tx, call')
    /\ UNCHANGED constructed

\* The caller computes signingHash(origin's address) and sends it to the delegator's signer
FlowHashForDelegator ==
    /\ tx # NoTx
    /\ flow.stage = "signing"
    /\ ~Has(flow, "delegatorHash")
    /\ \E k \in 1..NumKeys,
          args \in {[op |-> "getSignatureHash", delegateFor |-> AddressOfKey(flow.originKey)]} :
        \E hash \in {getSignatureHash(tx, args)} :
            /\ hash.err = ""
            /\ flow' = WithField(WithField(flow, "delegatorKey", k), "delegatorHash", hash.val)
            /\ call' = args
            /\ result' = hash
    /\ tx' = thisAfter(tx, call')
    /\ UNCHANGED constructed

\* The origin's signer answers
SignAsOrigin ==
    /\ flow.stage = "signing"
    /\ ~Has(flow, "originSignature")
    /\ flow' = WithField(flow, "originSignature", sign(flow.originHash, flow.originKey))
    /\ UNCHANGED <<tx, call, result, constructed>>

\* The delegator's signer answers
SignAsDelegator ==
    /\ flow.stage = "signing"
    /\ Has(flow, "delegatorHash")
    /\ ~Has(flow, "delegatorSignature")
    /\ flow' = WithField(flow, "delegatorSignature",
                         sign(flow.delegatorHash, flow.delegatorKey))
    /\ UNCHANGED <<tx, call, result, constructed>>

\* new Transaction(body, Buffer.concat([origin's signature, delegator's signature]))
FlowConstruct ==
    /\ tx # NoTx
    /\ flow.stage = "signing"
    /\ Has(flow, "originSignature")
    /\ Has(flow, "delegatorSignature")
    /\ \E args \in {[op |-> "constructor", body |-> tx.body,
                     signature |-> flow.originSignature \o flow.delegatorSignature]} :
        \E made \in {constructor(args)} :
            /\ call' = args
            /\ result' = [made EXCEPT !.val = <<>>]
            /\ tx' = IF made.err = "" THEN made.val ELSE NoTx
            /\ constructed' = tx'
    /\ flow' = [stage |-> "signed", originKey |-> flow.originKey,
                delegatorKey |-> flow.delegatorKey]

Init ==
    /\ tx = NoTx
    /\ call = [op |-> "none"]
    /\ result = Ok(<<>>)
    /\ flow = [stage |-> "idle"]
    /\ constructed = NoTx

Next ==
    \/ Construct
    \/ Discard
    \/ IsDelegated
    \/ IsSigned
    \/ GetSignatureHash
    \/ Encoded
    \/ Origin
    \/ Id
    \/ Delegator
    \/ EncodeReservedField
    \/ FlowHashForOrigin
    \/ FlowHashForDelegator
    \/ SignAsOrigin
    \/ SignAsDelegator
    \/ FlowConstruct

Spec == Init /\ [][Next]_vars

----------------------------------------------------------------------------
(* The helpers of the compact fixed-width blob kind, called on their own *)

\* Buffers hold at most MaxBlobLen bytes
MaxBlobLen == 4

\* Declared widths run from 0 to MaxWidth
MaxWidth == 3

BlobBytes == {0, 1, 255}

Buffers == UNION {[1..n -> BlobBytes] : n \in 0..MaxBlobLen}

Widths == 0..MaxWidth

Contexts == {"blockRef", "to"}

EncodeCompactFixedHexBlob ==
    /\ \E buffer \in Buffers :
        /\ call' = [op |-> "encodeCompactFixedHexBlob", buffer |-> buffer]
        /\ result' = Ok(encodeCompactFixedHexBlob(buffer))
    /\ UNCHANGED <<tx, flow, constructed>>

AssertCompactFixedHexBlobBuffer ==
    /\ \E buffer \in Buffers, context \in Contexts, bytes \in Widths :
        /\ call' = [op |-> "assertCompactFixedHexBlobBuffer", buffer |-> buffer,
                    context |-> context, bytes |-> bytes]
        /\ result' = assertCompactFixedHexBlobBuffer(buffer, context, bytes)
    /\ UNCHANGED <<tx, flow, constructed>>

DecodeBufferToHexWithLeadingZeros ==
    /\ \E buffer \in Buffers, bytes \in Widths :
        /\ call' = [op |-> "decodeBufferToHexWithLeadingZeros", buffer |-> buffer,
                    bytes |-> bytes]
        /\ result' = decodeBufferToHexWithLeadingZeros(buffer, bytes)
    /\ UNCHANGED <<tx, flow, constructed>>

CodecNext ==
    \/ EncodeCompactFixedHexBlob
    \/ AssertCompactFixedHexBlobBuffer
    \/ DecodeBufferToHexWithLeadingZeros

CodecSpec == Init /\ [][CodecNext]_vars
----------------------------------------------------------------------------
(* The claims *)

\* reserved.features of a body, 0 when reserved or reserved.features is absent
FeaturesOf(body) ==
    IF Has(body, "reserved") /\ Has(body.reserved, "features")
    THEN body.reserved.features ELSE 0

\* Bit 0 of reserved.features is set
DelegationBit(body) == FeaturesOf(body) % 2 = 1

\* The signature length the delegation flag of body asks for
ExpectedSignatureLength(body) == IF DelegationBit(body) THEN 130 ELSE 65

\* The conditions on a body that the constructor is said to check
MeetsBodyConditions(body) ==
    /\ \A f \in RequiredFields : Has(body, f)
    /\ body.chainTag \in 0..255
    /\ isHexString(body.blockRef)
    /\ Len(BufferFromHex(slice(body.blockRef, 2))) = 8

Constructing == call.op = "constructor"

Unsigned == tx # NoTx /\ ~Has(tx, "signature")

Signed == tx # NoTx /\ Has(tx, "signature")

\* C1: a construction with a signature whose length is not the one the delegation
\* flag of the body asks for (65 undelegated, 130 delegated) never succeeds, and on
\* a body that passes the body check it fails with InvalidSignature; so every signed
\* Transaction holds a signature of 65 bytes when undelegated and 130 when delegated.
C1_SignatureLengthGate ==
    /\ (Constructing /\ Has(call, "signature")
            /\ Len(call.signature) # ExpectedSignatureLength(call.body))
        => /\ result.err # ""
           /\ tx = NoTx
           /\ MeetsBodyConditions(call.body) => result.err = "InvalidSignature"
    /\ (Constructing /\ Has(call, "signature") /\ MeetsBodyConditions(call.body)
            /\ Len(call.signature) = ExpectedSignatureLength(call.body))
        => result.err = "" /\ tx = [body |-> call.body, signature |-> call.signature]
    /\ Signed => Len(tx.signature) = ExpectedSignatureLength(tx.body)

C1_Witness ==
    /\ Constructing
    /\ Has(call, "signature")
    /\ DelegationBit(call.body)
    /\ Len(call.signature) = 65
    /\ result.err = "InvalidSignature"

\* C2: construction fails with InvalidTransactionBody exactly when the body violates
\* one of the listed conditions, and a body that meets them all is accepted without a
\* signature whatever its other contents.
C2_BodyValidation ==
    Constructing =>
        /\ result.err = "InvalidTransactionBody" <=> ~MeetsBodyConditions(call.body)
        /\ (MeetsBodyConditions(call.body) /\ ~Has(call, "signature"))
            => result.err = "" /\ tx = [body |-> call.body]

C2_Witness ==
    /\ Constructing
    /\ ~Has(call, "signature")
    /\ result.err = ""
    /\ tx # NoTx
    /\ tx.body.clauses = <<ClauseMalformed>>
    /\ tx.body.dependsOn = Null

\* C3 as stated: origin, delegator and id on an unsigned Transaction each fail with
\* NotSigned, delegated or not.
C3_Original ==
    (Unsigned /\ call.op \in {"origin", "delegator", "id"}) => result.err = "NotSigned"

\* C3 as amended: on an unsigned Transaction origin and id fail with NotSigned;
\* delegator fails with NotSigned when the body is delegated and with NotDelegated
\* when it is not.
C3_UnsignedAccess ==
    /\ (Unsigned /\ call.op \in {"origin", "id"}) => result.err = "NotSigned"
    /\ (Unsigned /\ call.op = "delegator")
        => result.err = IF DelegationBit(tx.body) THEN "NotSigned" ELSE "NotDelegated"

C3_Witness ==
    /\ Unsigned
    /\ call.op = "delegator"
    /\ ~DelegationBit(tx.body)
    /\ result.err = "NotDelegated"

\* C4: delegator on a signed Transaction whose body is not delegated fails with
\* NotDelegated without one attempt to recover a public key.
C4_NotDelegated ==
    (Signed /\ call.op = "delegator" /\ ~DelegationBit(tx.body))
        => result.err = "NotDelegated" /\ result.rec = 0

C4_Witness ==
    /\ Signed
    /\ call.op = "delegator"
    /\ FeaturesOf(tx.body) = 2
    /\ result.err = "NotDelegated"

\* C5: isDelegated is true exactly when bit 0 of reserved.features (0 when absent)
\* is set, whatever the other bits and the unused list are.
C5_DelegationBit ==
    (tx # NoTx /\ call.op = "isDelegated")
        => result.err = "" /\ result.val = <<DelegationBit(tx.body)>>

C5_Witness ==
    /\ tx # NoTx
    /\ call.op = "isDelegated"
    /\ FeaturesOf(tx.body) = 3
    /\ result.val = <<TRUE>>

\* The bytes of the unsigned encoding of the body of tx, or the error of encoding it
UnsignedEncoding == encoded([body |-> tx.body])

\* What C6 says of the result, given the unsigned encoding and its hash
SigningHashIs(encoding, hash) ==
    IF encoding.err # "" THEN result.err = encoding.err
    ELSE /\ result.err = ""
         /\ ~Has(call, "delegateFor") => result.val = hash
         /\ Has(call, "delegateFor") =>
              /\ result.val = blake2b256(hash \o BufferFromHex(slice(call.delegateFor, 2)))
              /\ result.val # hash

\* C6: signingHash() is the hash of the unsigned encoding of the body, signed or not,
\* and signingHash(addr) for a well-formed addr is hash(signingHash() || bytes(addr)),
\* which differs from signingHash(); where the body cannot be encoded both fail alike.
C6_SigningHashIdentity ==
    (tx # NoTx /\ call.op = "getSignatureHash"
        /\ (Has(call, "delegateFor") => isAddress(call.delegateFor)))
    => \E encoding \in {UnsignedEncoding} :
        SigningHashIs(encoding, blake2b256(encoding.val))

C6_Witness ==
    /\ Signed
    /\ call.op = "getSignatureHash"
    /\ Has(call, "delegateFor")
    /\ isAddress(call.delegateFor)
    /\ result.err = ""

\* C7: signingHash(delegateFor) with a delegateFor that is not a well-formed address
\* fails with InvalidAddress and returns no hash; with none it never fails so.
C7_InvalidAddress ==
    (tx # NoTx /\ call.op = "getSignatureHash")
    => /\ (Has(call, "delegateFor") /\ ~isAddress(call.delegateFor))
            => result.err = "InvalidAddress" /\ result.val = <<>>
       /\ ~Has(call, "delegateFor") => result.err # "InvalidAddress"

C7_Witness ==
    /\ tx # NoTx
    /\ call.op = "getSignatureHash"
    /\ Has(call, "delegateFor")
    /\ Len(call.delegateFor) = 41
    /\ result.err = "InvalidAddress"

\* C8: once the flow has built the Transaction from the origin's signature of
\* signingHash() followed by the delegator's of signingHash(origin's address), however
\* the signers' answers were interleaved, construction has succeeded with 130 bytes,
\* origin is the origin signer's address and delegator the delegator signer's.
C8_DelegationFlow ==
    flow.stage = "signed"
    => /\ Signed
       /\ Len(tx.signature) = 130
       /\ call.op = "origin"
            => result.err = "" /\ result.val = AddressOfKey(flow.originKey)
       /\ call.op = "delegator"
            => result.err = "" /\ result.val = AddressOfKey(flow.delegatorKey)

C8_Witness ==
    /\ flow.stage = "signed"
    /\ call.op = "delegator"
    /\ flow.originKey # flow.delegatorKey
    /\ result.val = AddressOfKey(flow.delegatorKey)
    /\ result.val # AddressOfKey(flow.originKey)

\* The address recovered from the first 65 signature bytes against hash, or the
\* error of recovering it
RecoveredOrigin(hash) ==
    Try(recover(hash, SubSeq(tx.signature, 1, 65)), LAMBDA key : Ok(fromPublicKey(key)))

\* What C9 says of the result, given the unsigned encoding, its hash and the origin
IdIs(encoding, hash, from) ==
    IF encoding.err # "" THEN result.err = encoding.err
    ELSE IF from.err # "" THEN result.err = from.err
    ELSE /\ result.err = ""
         /\ result.val = <<"0", "x">>
                \o BufferToHex(blake2b256(hash \o BufferFromHex(slice(from.val, 2))))

\* C9: id of a signed Transaction is hash(signingHash() || bytes(origin)) in hex, with
\* signingHash() taken without delegateFor and origin recovered from the first 65
\* signature bytes; it fails where one of the two does; and it is the same whatever
\* bytes follow the first 65 of the signature.
C9_Id ==
    (Signed /\ call.op = "id")
    => /\ \E encoding \in {UnsignedEncoding} :
            \E hash \in {blake2b256(encoding.val)} :
                IdIs(encoding, hash, RecoveredOrigin(hash))
       /\ Len(tx.signature) = 130 =>
            \A half \in {Rep(0, 65), Rep(1, 65)} :
                id([tx EXCEPT !.signature = SubSeq(@, 1, 65) \o half]).val = result.val

C9_Witness ==
    /\ Signed
    /\ call.op = "id"
    /\ Len(tx.signature) = 130
    /\ result.err = ""
    /\ SubSeq(tx.signature, 66, 130) \notin {Rep(0, 65), Rep(1, 65)}

\* What follows the header of the RLP list bytes
RlpListPayload(bytes) ==
    IF bytes[1] <= 247 THEN SubSeq(bytes, 2, Len(bytes))
    ELSE SubSeq(bytes, 2 + (bytes[1] - 247), Len(bytes))

\* What C10 says of the result, given the unsigned encoding
EncodedIs(encoding) ==
    IF encoding.err # "" THEN result.err = encoding.err
    ELSE /\ result.err = ""
         /\ Unsigned =>
              /\ getSignatureHash(tx, NoArgs).val = blake2b256(result.val)
              /\ ~Has(tx.body, "reserved") => result.val[Len(result.val)] = 192
         /\ Signed =>
              \E payload \in {RlpListPayload(result.val)} :
                /\ payload = RlpListPayload(encoding.val) \o rlpEncode([b |-> tx.signature])
                /\ result.val = encodeLength(Len(payload), 192) \o payload

\* C10: encoded of an unsigned Transaction is the unsigned record, the bytes whose
\* hash signingHash() is, with the reserved slot there as a list (the empty list 0xc0
\* when reserved is absent); encoded of a signed one is the RLP list of the same items
\* followed by the signature as the last item; where the unsigned record cannot be
\* encoded both fail alike.
C10_Encoded ==
    (tx # NoTx /\ call.op = "encoded") => EncodedIs(UnsignedEncoding)

C10_Witness ==
    /\ Signed
    /\ call.op = "encoded"
    /\ result.err = ""
    /\ Len(tx.signature) = 130
    /\ result.val # UnsignedEncoding.val

NoLeadingZero(buffer) == Len(buffer) = 0 \/ buffer[1] # 0

Decoding == call.op = "decodeBufferToHexWithLeadingZeros"

\* The bytes the decoded hex string stands for
DecodedBytes == BufferFromHex(slice(result.val, 2))

\* The buffer being decoded is the encoding of blob, a blob that fits the declared
\* width and has no leading zero byte
DecodesEncodingOf(blob) ==
    /\ NoLeadingZero(blob)
    /\ Len(blob) <= call.bytes
    /\ call.buffer = encodeCompactFixedHexBlob(blob)

\* C11 as stated: decoding with width N the encoding of a blob of length 0..N that has
\* no leading zero byte yields the blob again.
C11_Original ==
    Decoding => \A blob \in Buffers :
        DecodesEncodingOf(blob) => result.err = "" /\ DecodedBytes = blob

\* C11 as amended: decoding with width N the encoding of a blob of length 0..N that
\* has no leading zero byte is accepted and yields the blob padded on the left with
\* zero bytes to N bytes, whose encoding is the blob again; and decoding the encoding
\* of a value of exactly N bytes, leading zeros or not, yields the value.
C11_RoundTrip ==
    Decoding =>
        /\ \A blob \in Buffers :
            DecodesEncodingOf(blob) =>
                /\ \A context \in Contexts :
                    assertCompactFixedHexBlobBuffer(call.buffer, context, call.bytes).err = ""
                /\ result.err = ""
                /\ DecodedBytes = Rep(0, call.bytes - Len(blob)) \o blob
                /\ encodeCompactFixedHexBlob(DecodedBytes) = blob
        /\ \A value \in Buffers :
            (Len(value) = call.bytes /\ call.buffer = encodeCompactFixedHexBlob(value))
                => result.err = "" /\ DecodedBytes = value

C11_Witness ==
    /\ Decoding
    /\ call.bytes = 3
    /\ call.buffer = <<255>>
    /\ DecodesEncodingOf(<<255>>)
    /\ result.val = Str0x(<<"0", "0", "0", "0", "f", "f">>)

\* C12: the decode-time assertion of a compact fixed-width blob of width N rejects,
\* with an error that carries the context name, every buffer longer than N and every
\* non-empty buffer whose first byte is zero, and accepts every other buffer.
C12_DecodeRejects ==
    call.op = "assertCompactFixedHexBlobBuffer" =>
        IF Len(call.buffer) > call.bytes \/ (Len(call.buffer) # 0 /\ call.buffer[1] = 0)
        THEN result.err = "RlpError" /\ result.context = call.context
        ELSE result.err = ""

C12_Witness ==
    /\ call.op = "assertCompactFixedHexBlobBuffer"
    /\ call.buffer = <<0, 1>>
    /\ call.bytes = 3
    /\ call.context = "to"
    /\ result.err = "RlpError"
    /\ result.context = "to"

\* [encode(features), ...unused] of the body of tx, before trimming
ReservedList ==
    LET reserved == IF Has(tx.body, "reserved") THEN tx.body.reserved ELSE <<>>
    IN  <<ToBE(FeaturesOf(tx.body))>>
        \o (IF Has(reserved, "unused") THEN reserved.unused ELSE <<>>)

\* C13: the reserved field is encoded as a prefix of [encode(features), ...unused]
\* that is empty or ends with a non-empty entry, every entry left out being empty; a
\* body with reserved absent, {} or {features: 0, unused: []} encodes the empty list.
C13_ReservedTrimming ==
    (tx # NoTx /\ call.op = "_encodeReservedField") =>
        /\ result.err = ""
        /\ Len(result.val) <= Len(ReservedList)
        /\ result.val = SubSeq(ReservedList, 1, Len(result.val))
        /\ result.val = <<>> \/ result.val[Len(result.val)] # <<>>
        /\ \A i \in (Len(result.val) + 1)..Len(ReservedList) : ReservedList[i] = <<>>
        /\ (~Has(tx.body, "reserved")
                \/ tx.body.reserved \in {<<>>, [features |-> 0, unused |-> <<>>]})
            => result.val = <<>>

C13_Witness ==
    /\ tx # NoTx
    /\ call.op = "_encodeReservedField"
    /\ Has(tx.body, "reserved")
    /\ tx.body.reserved = [features |-> 0, unused |-> << <<7>>, <<>> >>]
    /\ result.val = << <<>>, <<7>> >>

\* The number of zero bytes buffer starts with
LeadingZeros(buffer) ==
    Cardinality({i \in 1..Len(buffer) : \A j \in 1..i : buffer[j] = 0})

\* C14: compact encoding returns the suffix of its input that starts at the first
\* non-zero byte, the empty buffer when there is none; the result has no leading zero
\* byte and encoding it again returns it unchanged.
C14_CompactEncoding ==
    call.op = "encodeCompactFixedHexBlob" =>
        /\ result.err = ""
        /\ result.val = SubSeq(call.buffer, LeadingZeros(call.buffer) + 1, Len(call.buffer))
        /\ (\A i \in 1..Len(call.buffer) : call.buffer[i] = 0) => result.val = <<>>
        /\ NoLeadingZero(result.val)
        /\ encodeCompactFixedHexBlob(result.val) = result.val

C14_Witness ==
    /\ call.op = "encodeCompactFixedHexBlob"
    /\ call.buffer = <<0, 0, 1, 0>>
    /\ result.val = <<1, 0>>

\* The reads of a Transaction
Reads ==
    {"isDelegated", "isSigned", "getSignatureHash", "encoded", "origin", "delegator", "id"}

\* What the read args returns or throws on the instance t
ReadOf(t, args) ==
    CASE args.op = "isDelegated" -> isDelegated(t)
      [] args.op = "isSigned" -> isSigned(t)
      [] args.op = "getSignatureHash" -> getSignatureHash(t, args)
      [] args.op = "encoded" -> encoded(t)
      [] args.op = "origin" -> origin(t)
      [] args.op = "delegator" -> delegator(t)
      [] args.op = "id" -> id(t)

====
